---------------------------- MODULE Spec2Model ----------------------------
(***************************************************************************)
(* RulePolicy of rasa/core/policies/rule_policy.py as a state machine.     *)
(*                                                                         *)
(* Feature keys are Python strings and the policy works on them with       *)
(* substring tests, split, strip, a regular expression and len; they are   *)
(* TLA+ strings here and every one of those operations is computed on the  *)
(* characters.  A dialogue state (a Python dict feature -> probability,    *)
(* in insertion order) is a sequence of <<feature, probability>> pairs; a  *)
(* lookup table (a Python dict, in insertion order) is a sequence of       *)
(* <<key, value>> pairs with distinct keys.  Action indices are 0-based    *)
(* as in Python.  A table holds ints (action indices) or strs (the negative *)
(* markers) and Python compares the two kinds (unequal); a table value is   *)
(* therefore tagged with its type: PyInt(3), PyStr("no_validation"),        *)
(* PyNone.  An optional name (a form, an intent, a key) is the name or None.*)
(***************************************************************************)
EXTENDS Integers, Sequences, FiniteSets, TLC

VARIABLES
    lookup,           \* self.lookup
    negative_lookup,  \* self.negative_lookup
    is_enabled,       \* self.is_enabled
    hash_seed,        \* the interpreter's string-hash seed (set iteration order)
    trained,          \* the training points the tables were built from
    tracker,          \* the tracker handed to predict_action_probabilities
    result,           \* the vector the last call returned
    call,             \* the locals of the last call (tier, key, recalled, ...)
    memorized_file,   \* memorized_turns.json under the model's path
    load_fault        \* how the last operation, if a load, fell short of a persisted policy

vars == <<lookup, negative_lookup, is_enabled, hash_seed, trained, tracker,
          result, call, memorized_file, load_fault>>

None == "<None>"

PyInt(i) == <<"int", i>>
PyStr(s) == <<"str", s>>
PyNone == <<"None">>

---------------------------------------------------------------------------
(* Python's str operations, on the characters.                             *)

\* s[i:] for 0 <= i
StrFrom(s, i) == SubSeq(s, i + 1, Len(s))

\* s[:i]; a negative i counts from the end
StrUpTo(s, i) == SubSeq(s, 1, IF i < 0 THEN Len(s) + i ELSE i)

\* p in s
StrIn(p, s) == \E i \in 1..(Len(s) - Len(p) + 1) : SubSeq(s, i, i + Len(p) - 1) = p

\* s.startswith(p)
StartsWith(s, p) == Len(p) <= Len(s) /\ SubSeq(s, 1, Len(p)) = p

\* s.endswith(p)
EndsWith(s, p) == Len(p) <= Len(s) /\ SubSeq(s, Len(s) - Len(p) + 1, Len(s)) = p

\* s.find(p): the 0-based index of the first occurrence, -1 when there is none
StrFind(s, p) ==
    LET at == {i \in 0..(Len(s) - Len(p)) : SubSeq(s, i + 1, i + Len(p)) = p}
    IN  IF at = {} THEN -1 ELSE CHOOSE i \in at : \A j \in at : i <= j

\* s.rfind(p): the 0-based index of the last occurrence, -1 when there is none
StrRFind(s, p) ==
    LET at == {i \in 0..(Len(s) - Len(p)) : SubSeq(s, i + 1, i + Len(p)) = p}
    IN  IF at = {} THEN -1 ELSE CHOOSE i \in at : \A j \in at : i >= j

\* s.strip(): the keys hold no whitespace but the blank
RECURSIVE StrStrip(_)
StrStrip(s) ==
    IF s = "" THEN s
    ELSE IF SubSeq(s, 1, 1) = " " THEN StrStrip(StrFrom(s, 1))
    ELSE IF SubSeq(s, Len(s), Len(s)) = " " THEN StrStrip(StrUpTo(s, Len(s) - 1))
    ELSE s

\* s.split(sep) for a one-character sep: empty pieces are kept
RECURSIVE StrSplit(_, _)
StrSplit(s, sep) ==
    LET i == StrFind(s, sep)
    IN  IF i < 0 THEN <<s>>
        ELSE <<StrUpTo(s, i)>> \o StrSplit(StrFrom(s, i + 1), sep)

\* s.split(): split on runs of whitespace, empty pieces are dropped
StrSplitWhitespace(s) == SelectSeq(StrSplit(s, " "), LAMBDA piece : piece # "")

\* list(reversed(xs))
Reversed(xs) == [i \in 1..Len(xs) |-> xs[Len(xs) + 1 - i]]

\* xs[-n:]
LastN(xs, n) == IF Len(xs) <= n THEN xs ELSE SubSeq(xs, Len(xs) - n + 1, Len(xs))

---------------------------------------------------------------------------
(* Python's dict operations on a table kept in insertion order.            *)

DictKeys(d) == [i \in 1..Len(d) |-> d[i][1]]

DictHas(d, k) == \E i \in 1..Len(d) : d[i][1] = k

\* d.get(k)
DictGet(d, k) == IF DictHas(d, k) THEN d[CHOOSE i \in 1..Len(d) : d[i][1] = k][2] ELSE PyNone

\* d[k] = v: an existing key keeps its place
DictSet(d, k, v) ==
    IF DictHas(d, k) THEN [i \in 1..Len(d) |-> IF d[i][1] = k THEN <<k, v>> ELSE d[i]]
    ELSE Append(d, <<k, v>>)

\* del d[k]
DictDel(d, k) == SelectSeq(d, LAMBDA e : e[1] # k)

---------------------------------------------------------------------------
(* Names imported by rule_policy.py.                                       *)

PREV_PREFIX == "prev_"
ACTIVE_FORM_PREFIX == "active_form_"
RULE_SNIPPET_ACTION_NAME == "..."
ACTION_LISTEN_NAME == "action_listen"
ACTION_RESTART_NAME == "action_restart"
ACTION_BACK_NAME == "action_back"
ACTION_SESSION_START_NAME == "action_session_start"
USER_INTENT_RESTART == "restart"
USER_INTENT_BACK == "back"
USER_INTENT_SESSION_START == "session_start"
NO_VALIDATION == "no_validation"
NO_ACTIVE_FORM == "no_active_form"

\* DEFAULT_ACTION_MAPPINGS with the session-start entry left out
DEFAULT_ACTION_MAPPINGS_NoSessionStart ==
    << <<USER_INTENT_RESTART, ACTION_RESTART_NAME>>,
       <<USER_INTENT_BACK, ACTION_BACK_NAME>> >>

DEFAULT_ACTION_MAPPINGS ==
    << <<USER_INTENT_RESTART, ACTION_RESTART_NAME>>,
       <<USER_INTENT_BACK, ACTION_BACK_NAME>>,
       <<USER_INTENT_SESSION_START, ACTION_SESSION_START_NAME>> >>

---------------------------------------------------------------------------
(* The domain: the known actions, in index order.  "f" is a form's action, *)
(* "utter_a" a response.                                                   *)

action_names ==
    <<ACTION_LISTEN_NAME, ACTION_RESTART_NAME, ACTION_SESSION_START_NAME,
      ACTION_BACK_NAME, RULE_SNIPPET_ACTION_NAME, "f", "utter_a">>

num_actions == Len(action_names)

\* domain.index_for_action(name), 0-based
index_for_action(name) == (CHOOSE i \in 1..num_actions : action_names[i] = name) - 1

\* domain.action_names[index]
action_name_at(index) == action_names[index + 1]

\* Policy._default_predictions(domain): [0.0] * domain.num_actions
_default_predictions == [i \in 0..(num_actions - 1) |-> 0]

\* result[index] = 1
SetOne(vector, index) == [vector EXCEPT ![index] = 1]

---------------------------------------------------------------------------
(* Dialogue states.                                                        *)

\* state.keys()
StateKeys(state) == [i \in 1..Len(state) |-> state[i][1]]

\* feature in state
InState(feature, state) == \E i \in 1..Len(state) : state[i][1] = feature

---------------------------------------------------------------------------
(* RulePolicy._create_feature_key                                          *)

RECURSIVE AppendFeatures(_, _)
AppendFeatures(feature_str, features) ==
    IF features = <<>> THEN feature_str
    ELSE AppendFeatures(feature_str \o Head(features) \o " ", Tail(features))

RECURSIVE CreateKeyFrom(_, _)
CreateKeyFrom(feature_str, states) ==
    IF states = <<>> THEN feature_str
    ELSE IF Head(states) # <<>>
         THEN CreateKeyFrom(
                 StrStrip(AppendFeatures(feature_str \o "|", StateKeys(Head(states)))),
                 Tail(states))
         ELSE CreateKeyFrom(feature_str, Tail(states))

_create_feature_key(states) == CreateKeyFrom("", states)

---------------------------------------------------------------------------
(* RulePolicy._get_active_form_name, _prev_action_listen_in_state,         *)
(* _modified_states                                                        *)

_get_active_form_name(state) ==
    LET found_forms ==
            SelectSeq(state, LAMBDA item :
                /\ StrIn(ACTIVE_FORM_PREFIX, item[1])
                /\ item[1] # ACTIVE_FORM_PREFIX \o "None"
                /\ item[2] > 0)
    IN  IF found_forms # <<>>
        THEN StrFrom(found_forms[1][1], Len(ACTIVE_FORM_PREFIX))
        ELSE None

_prev_action_listen_in_state(state) ==
    \E i \in 1..Len(state) :
        StrIn(PREV_PREFIX \o ACTION_LISTEN_NAME, state[i][1]) /\ state[i][2] > 0

\* The encoder pads no history here (max_history is None), so states[0] is a dict.
_modified_states(states) ==
    LET action_before_listen ==
            SelectSeq(states[1], LAMBDA item :
                StrIn(PREV_PREFIX, item[1]) /\ item[2] > 0)
    IN  IF ~InState("prev_...", action_before_listen)
        THEN << << <<"prev_...", 1>> >>, action_before_listen, states[Len(states)] >>
        ELSE << action_before_listen, states[Len(states)] >>

---------------------------------------------------------------------------
(* RulePolicy._clean_feature_keys                                          *)

\* re.sub(r".*prev_\.\.\.[^|]*", "", key): the greedy .* runs to the last
\* "prev_...", [^|]* to the end of that turn; what follows is kept.
ReSubSnippetTurn(key) ==
    LET at   == StrRFind(key, "prev_...")
        rest == StrFrom(key, at + Len("prev_..."))
        bar  == StrFind(rest, "|")
    IN  IF at < 0 THEN key
        ELSE IF bar < 0 THEN "" ELSE StrFrom(rest, bar)

\* StripBars without lines 142-143: the leading "|" stays
StripBars_TrailingOnly(new_key) ==
    IF EndsWith(new_key, "|") THEN StrUpTo(new_key, -1) ELSE new_key

\* lines 142-145: one leading and one trailing "|" are cut
StripBars(new_key) ==
    LET lead == IF StartsWith(new_key, "|") THEN StrFrom(new_key, 1) ELSE new_key
    IN  IF EndsWith(lead, "|") THEN StrUpTo(lead, -1) ELSE lead

\* the key an entry is re-inserted under (lines 139-146)
GeneralizedKey(key) == StripBars(ReSubSnippetTurn(key))

\* CleanOneKey without the test of lines 132-134 for the placeholder action
CleanOneKey_KeepPlaceholder(table, updated_lookup, key) ==
    IF ~StrIn(PREV_PREFIX, key)
    THEN DictDel(updated_lookup, key)
    ELSE IF StrIn(RULE_SNIPPET_ACTION_NAME, key)
    THEN DictDel(IF ReSubSnippetTurn(key) # ""
                 THEN DictSet(updated_lookup, GeneralizedKey(key), DictGet(table, key))
                 ELSE updated_lookup,
                 key)
    ELSE updated_lookup

\* one pass of the loop body, for `key` of the original table
CleanOneKey(table, updated_lookup, key) ==
    IF \/ ~StrIn(PREV_PREFIX, key)
       \/ DictGet(table, key) = PyInt(index_for_action(RULE_SNIPPET_ACTION_NAME))
    THEN DictDel(updated_lookup, key)
    ELSE IF StrIn(RULE_SNIPPET_ACTION_NAME, key)
    THEN DictDel(IF ReSubSnippetTurn(key) # ""
                 THEN DictSet(updated_lookup, GeneralizedKey(key), DictGet(table, key))
                 ELSE updated_lookup,
                 key)
    ELSE updated_lookup

RECURSIVE CleanLoop(_, _, _)
CleanLoop(table, updated_lookup, keys) ==
    IF keys = <<>> THEN updated_lookup
    ELSE CleanLoop(table, CleanOneKey(table, updated_lookup, Head(keys)), Tail(keys))

_clean_feature_keys(table) == CleanLoop(table, table, DictKeys(table))

---------------------------------------------------------------------------
(* RulePolicy.train.  A training point is what the featurizer makes of one *)
(* step of a training tracker: the states up to the step, the action taken *)
(* there, and the tracker's is_rule_tracker and is_augmented.              *)

\* MemoizationPolicy._add_states_to_lookup: key -> action index, last write wins
RECURSIVE _add_states_to_lookup(_, _)
_add_states_to_lookup(table, points) ==
    IF points = <<>> THEN table
    ELSE _add_states_to_lookup(
            DictSet(table, _create_feature_key(Head(points).states),
                    PyInt(index_for_action(Head(points).action))),
            Tail(points))

\* MineNegativeRule without the test of line 217 for action_listen
MineNegativeRule_NotOnlyForm(table, point) ==
    LET active_form == _get_active_form_name(point.states[Len(point.states)])
        states      == _modified_states(LastN(point.states, 2))
        feature_key == _create_feature_key(states)
        listen      == _prev_action_listen_in_state(states[Len(states)])
    IN  IF active_form = None THEN table
        ELSE IF listen /\ point.action = active_form
        THEN DictSet(table, feature_key, PyStr(NO_VALIDATION))
        ELSE IF ~listen /\ point.action # active_form
        THEN DictSet(table, feature_key, PyStr(NO_ACTIVE_FORM))
        ELSE table

\* lines 195-220 for one (states, actions) pair
MineNegativeRule(table, point) ==
    LET active_form == _get_active_form_name(point.states[Len(point.states)])
        states      == _modified_states(LastN(point.states, 2))
        feature_key == _create_feature_key(states)
        listen      == _prev_action_listen_in_state(states[Len(states)])
    IN  IF active_form = None THEN table
        ELSE IF listen /\ point.action = active_form
        THEN DictSet(table, feature_key, PyStr(NO_VALIDATION))
        ELSE IF ~listen /\ point.action \notin {ACTION_LISTEN_NAME, active_form}
        THEN DictSet(table, feature_key, PyStr(NO_ACTIVE_FORM))
        ELSE table

RECURSIVE MineNegativeRules(_, _)
MineNegativeRules(table, points) ==
    IF points = <<>> THEN table
    ELSE MineNegativeRules(MineNegativeRule(table, Head(points)), Tail(points))

\* lines 163-169
RulePoints(training_trackers) ==
    SelectSeq(training_trackers, LAMBDA t : ~t.is_augmented /\ t.is_rule_tracker)

\* lines 163-167, 183
StoryPoints(training_trackers) ==
    SelectSeq(training_trackers, LAMBDA t : ~t.is_augmented /\ ~t.is_rule_tracker)

\* self.lookup after train
TrainLookup(training_trackers) ==
    _clean_feature_keys(_add_states_to_lookup(<<>>, RulePoints(training_trackers)))

\* self.negative_lookup after train
TrainNegativeLookup(training_trackers) ==
    _clean_feature_keys(
        MineNegativeRules(<<>>,
            RulePoints(training_trackers) \o StoryPoints(training_trackers)))

---------------------------------------------------------------------------
(* RulePolicy._features_in_state, _rule_is_good                            *)

\* s[: s.rfind("_")]
SlotBase(s) == StrUpTo(s, StrRFind(s, "_"))

\* state_slots[k]
StateSlots(state, k) ==
    {s \in {state[i][1] : i \in 1..Len(state)} : StartsWith(s, "slot") /\ SlotBase(s) = k}

\* f_slots[k], filled by the features that reach line 247
FeatureSlots(features, k) ==
    {f \in {features[i] : i \in 1..Len(features)} :
        ~EndsWith(f, "_None") /\ StartsWith(f, "slot") /\ SlotBase(f) = k}

_features_in_state(features, state) ==
    /\ \A i \in 1..Len(features) :
          LET f == features[i]
          IN  IF EndsWith(f, "_None")
              THEN ~\E j \in 1..Len(state) : StrIn(SlotBase(f), state[j][1])
              ELSE InState(f, state)
    /\ \A i \in 1..Len(features) :
          LET f == features[i]
          IN  (~EndsWith(f, "_None") /\ StartsWith(f, "slot"))
                  => StateSlots(state, SlotBase(f)) = FeatureSlots(features, SlotBase(f))

\* _rule_is_good whose empty rule turn matches any state (line 268 without
\* `and not state`)
_rule_is_good_EmptyMatchesAny(rule_key, turn_index, state) ==
    LET rule_turns == Reversed(StrSplit(rule_key, "|"))
    IN  \/ turn_index >= Len(rule_turns)
        \/ rule_turns[turn_index + 1] = ""
        \/ /\ rule_turns[turn_index + 1] # ""
           /\ state # <<>>
           /\ _features_in_state(StrSplitWhitespace(rule_turns[turn_index + 1]), state)

_rule_is_good(rule_key, turn_index, state) ==
    LET rule_turns == Reversed(StrSplit(rule_key, "|"))
    IN  \/ turn_index >= Len(rule_turns)
        \/ (rule_turns[turn_index + 1] = "" /\ state = <<>>)
        \/ /\ rule_turns[turn_index + 1] # ""
           /\ state # <<>>
           /\ _features_in_state(StrSplitWhitespace(rule_turns[turn_index + 1]), state)

---------------------------------------------------------------------------
(* The tracker: what predict_action_probabilities reads of it, and the     *)
(* FormValidation events it was updated with.                              *)

\* DialogueStateTracker.update(FormValidation(validate)): the event is
\* appended and sets the active loop's validate flag
UpdateFormValidation(tk, validate) ==
    [tk EXCEPT !.events = Append(@, validate), !.active_loop.validate = validate]

\* TrackerFeaturizer.prediction_states([tracker], domain)[0]
prediction_states(tk) == tk.states

\* _should_run_rasa_default_action
_should_run_rasa_default_action(tk) ==
    IF tk.latest_action_name # ACTION_LISTEN_NAME \/ tk.latest_message = None
    THEN None
    ELSE IF DictHas(DEFAULT_ACTION_MAPPINGS, tk.latest_message)
    THEN DEFAULT_ACTION_MAPPINGS[
             CHOOSE i \in 1..Len(DEFAULT_ACTION_MAPPINGS) :
                 DEFAULT_ACTION_MAPPINGS[i][1] = tk.latest_message][2]
    ELSE None

---------------------------------------------------------------------------
(* RulePolicy.predict_action_probabilities                                 *)

\* lines 340-346: the keys that pass _rule_is_good at every reversed turn
RECURSIVE FilterKeys(_, _, _)
FilterKeys(keys, reversed_states, i) ==
    IF i >= Len(reversed_states) THEN keys
    ELSE FilterKeys(
            SelectSeq(keys, LAMBDA _key : _rule_is_good(_key, i, reversed_states[i + 1])),
            reversed_states, i + 1)

\* The order a set of keys is iterated in is fixed by the interpreter's hash
\* seed: the table's order under seed 0, the opposite order under seed 1.
SetOrder(keys, seed) == IF seed = 0 THEN keys ELSE Reversed(keys)

\* next(iter(possible_keys)) in place of max(possible_keys, key=len)
MaxByLen_First(possible_keys, seed) == SetOrder(possible_keys, seed)[1]

\* max(possible_keys, key=len): the first of the longest keys in iteration order
MaxByLen(possible_keys, seed) ==
    LET order == SetOrder(possible_keys, seed)
        first == CHOOSE i \in 1..Len(order) :
                    /\ \A j \in 1..Len(order) : Len(order[j]) <= Len(order[i])
                    /\ \A j \in 1..(i - 1) : Len(order[j]) < Len(order[i])
    IN  order[first]

\* lines 365-370
PredictedListenFromGeneralRule(recalled, key, active_form_name) ==
    /\ recalled # PyNone
    /\ key # None
    /\ action_name_at(recalled[2]) = ACTION_LISTEN_NAME
    /\ ~StrIn("active_form_" \o active_form_name, key)

\* lines 388-390
NotifyNoValidation(tk, negative_recalled) ==
    IF PyStr(NO_VALIDATION) \in negative_recalled
    THEN UpdateFormValidation(tk, FALSE)
    ELSE tk

\* FormOverrideResult without its return: line 396 then marks the recalled action too
FormOverrideResult_NoReturn(active_form_name, recalled) ==
    SetOne(SetOne(_default_predictions, index_for_action(active_form_name)), recalled[2])

\* FormOverrideResult marking the recalled action, not the form
FormOverrideResult_Recalled(active_form_name, recalled) ==
    SetOne(_default_predictions, recalled[2])

\* lines 378-379: the form is predicted in place of the recalled action_listen
FormOverrideResult(active_form_name, recalled) ==
    SetOne(_default_predictions, index_for_action(active_form_name))

\* lines 381-382 left out: recalled stays
Suppress_Keep(recalled) == recalled

\* lines 381-382: recalled as the negative rule leaves it
Suppress(recalled) == PyNone

\* RecallResult testing `if recalled:` in place of `if recalled is not None:`
RecallResult_Truthy(recalled) ==
    IF recalled # PyNone /\ recalled[2] # 0 THEN SetOne(_default_predictions, recalled[2])
    ELSE _default_predictions

\* lines 392-400
RecallResult(recalled) ==
    IF recalled # PyNone THEN SetOne(_default_predictions, recalled[2])
    ELSE _default_predictions

\* What a return hands back: the vector, the tracker as the call leaves it,
\* and the call's locals (tier names the return statement taken).
Return(vector, tk, tier, key, recalled, possible_keys, negative_keys, negative_recalled) ==
    [result |-> vector, tracker |-> tk, tier |-> tier, key |-> key,
     recalled |-> recalled, possible_keys |-> possible_keys,
     negative_keys |-> negative_keys, negative_recalled |-> negative_recalled]

\* lines 348-400, with the keys that lines 332-346 left
Recall(tk, lk, nlk, seed, possible_keys, negative_keys) ==
    LET active_form_name == tk.active_loop.name
        key == IF possible_keys # <<>> THEN MaxByLen(possible_keys, seed) ELSE None
        recalled == IF possible_keys # <<>> THEN DictGet(lk, key) ELSE PyNone
        negative_recalled == {DictGet(nlk, negative_keys[i]) : i \in 1..Len(negative_keys)}
        general == PredictedListenFromGeneralRule(recalled, key, active_form_name)
    IN  IF active_form_name # None /\ general /\ PyStr(NO_ACTIVE_FORM) \notin negative_recalled
        THEN Return(FormOverrideResult(active_form_name, recalled),
                    tk, "form_override", key, recalled,
                    possible_keys, negative_keys, negative_recalled)
        ELSE IF active_form_name # None /\ general
        THEN Return(RecallResult(Suppress(recalled)),
                    NotifyNoValidation(tk, negative_recalled),
                    "suppressed", key, Suppress(recalled),
                    possible_keys, negative_keys, negative_recalled)
        ELSE Return(RecallResult(recalled),
                    IF active_form_name # None
                    THEN NotifyNoValidation(tk, negative_recalled) ELSE tk,
                    IF recalled # PyNone THEN "rule" ELSE "no_rule", key, recalled,
                    possible_keys, negative_keys, negative_recalled)

\* lines 332-400
MatchRules(tk, lk, nlk, seed) ==
    Recall(tk, lk, nlk, seed,
           FilterKeys(DictKeys(lk), Reversed(prediction_states(tk)), 0),
           FilterKeys(DictKeys(nlk), Reversed(prediction_states(tk)), 0))

\* should_predict_form with the comparison of line 307 turned round
should_predict_form_Equal(tk) ==
    /\ tk.active_loop.name # None
    /\ ~tk.active_loop.rejected
    /\ tk.latest_action_name = tk.active_loop.name

\* should_predict_form with the rejected flag of line 306 read the wrong way
should_predict_form_IfRejected(tk) ==
    /\ tk.active_loop.name # None
    /\ tk.active_loop.rejected
    /\ tk.latest_action_name # tk.active_loop.name

\* lines 302-308
should_predict_form(tk) ==
    /\ tk.active_loop.name # None
    /\ ~tk.active_loop.rejected
    /\ tk.latest_action_name # tk.active_loop.name

\* lines 309-313
should_predict_listen(tk) ==
    /\ tk.active_loop.name # None
    /\ ~tk.active_loop.rejected
    /\ tk.latest_action_name = tk.active_loop.name

\* lines 289-330, then MatchRules
predict_action_probabilities(tk, lk, nlk, enabled, seed) ==
    LET rasa_default_action_name == _should_run_rasa_default_action(tk)
        active_form_name == tk.active_loop.name
    IN  IF ~enabled
        THEN Return(_default_predictions, tk, "disabled", None, PyNone, <<>>, <<>>, {})
        ELSE IF rasa_default_action_name # None
        THEN Return(SetOne(_default_predictions, index_for_action(rasa_default_action_name)),
                    tk, "default_action", None, PyNone, <<>>, <<>>, {})
        ELSE IF should_predict_form(tk)
        THEN Return(SetOne(_default_predictions, index_for_action(active_form_name)),
                    tk, "form", None, PyNone, <<>>, <<>>, {})
        ELSE IF should_predict_listen(tk)
        THEN Return(SetOne(_default_predictions, index_for_action(ACTION_LISTEN_NAME)),
                    tk, "listen_after_form", None, PyNone, <<>>, <<>>, {})
        ELSE MatchRules(tk, lk, nlk, seed)

---------------------------------------------------------------------------
(* Inputs.  A dialogue state lists its features in the encoder's order:    *)
(* intent, slots, previous action, active form; every weight is 1.         *)

State(features) == [i \in 1..Len(features) |-> <<features[i], 1>>]

E   == State(<<>>)
L   == State(<<"prev_action_listen">>)
Lh  == State(<<"intent_hi", "prev_action_listen">>)
Ls  == State(<<"slot_sl_0", "prev_action_listen">>)
LhS == State(<<"intent_hi", "slot_sl_0", "prev_action_listen">>)
LN  == State(<<"slot_sl_None", "prev_action_listen">>)
U   == State(<<"prev_utter_a">>)
W   == State(<<"prev_...">>)
LF  == State(<<"prev_action_listen", "active_form_f">>)
UF  == State(<<"prev_utter_a", "active_form_f">>)
FF  == State(<<"prev_f", "active_form_f">>)

Rule(states, action) ==
    [states |-> states, action |-> action, is_rule_tracker |-> TRUE, is_augmented |-> FALSE]

Story(states, action) ==
    [states |-> states, action |-> action, is_rule_tracker |-> FALSE, is_augmented |-> FALSE]

Augmented(point) == [point EXCEPT !.is_augmented = TRUE]

\* The actions a rule may be labelled with
RuleActions == {action_names[i] : i \in 1..num_actions}

\* The training sets the policy is trained on.
TrainingSets ==
    \* one rule: after the first user message, run A
    { << Rule(<<E, L>>, a) >> : a \in RuleActions }
    \cup
    { \* a rule snippet that listens after utter_a; a story leaving the form
      << Rule(<<E, W, U>>, ACTION_LISTEN_NAME),
         Story(<<E, LF>>, "f"),
         Story(<<E, LF, FF>>, ACTION_LISTEN_NAME),
         Story(<<E, LF, UF>>, "utter_a") >>,
      \* a rule that listens after a user message; a story entering the form
      << Rule(<<E, L>>, ACTION_LISTEN_NAME),
         Story(<<E, LF>>, "f") >>,
      \* a rule entering the form from the user message
      << Rule(<<E, LF>>, "f") >>,
      \* rule snippets on the intent, on the slot, and on neither
      << Rule(<<E, W, Lh>>, "utter_a"),
         Rule(<<E, W, Ls>>, "f"),
         Rule(<<E, W, L>>, ACTION_BACK_NAME) >>,
      \* a rule whose history holds an empty state in the middle
      << Rule(<<E, L, E, U>>, "utter_a") >>,
      \* a rule on an unset slot, and one on a set slot
      << Rule(<<E, LN>>, "utter_a"),
         Rule(<<E, Ls>>, "f") >>,
      \* a rule written twice, an augmented tracker, a snippet's own steps
      << Rule(<<E, U>>, "utter_a"),
         Rule(<<E, U>>, "f"),
         Augmented(Rule(<<E, L>>, "utter_a")),
         Rule(<<E>>, RULE_SNIPPET_ACTION_NAME),
         Rule(<<E, L>>, RULE_SNIPPET_ACTION_NAME),
         Rule(<<E, W>>, ACTION_LISTEN_NAME),
         Rule(<<E, W, U, W, L>>, "utter_a") >> }

\* The states a conversation is encoded to.  Only its start is empty; the
\* latest state is any of LatestTurns, the ones before it are of EarlierTurns.
LatestTurns == {L, LhS, U, LF, UF, FF}
EarlierTurns == {U, LF}

MaxTurns == 3

\* The histories of up to n states that come before the latest one
RECURSIVE Histories(_)
Histories(n) ==
    IF n = 0 THEN {<<>>}
    ELSE LET shorter == Histories(n - 1)
         IN  shorter \cup {<<E>>}
                     \cup {Append(h, t) : h \in {x \in shorter : Len(x) = n - 1},
                                          t \in EarlierTurns}

Conversations ==
    {<<E>>} \cup {Append(h, t) : h \in Histories(MaxTurns - 1), t \in LatestTurns}

\* The intent of the latest message: none yet, or one that is reserved
Intents == {None, USER_INTENT_RESTART, USER_INTENT_BACK, USER_INTENT_SESSION_START}

\* The build's hash seeds
HashSeeds == {0, 1}

\* tracker.latest_action_name of a tracker encoded to `state`
LatestActionOf(state) ==
    LET prev == SelectSeq(state, LAMBDA item : StartsWith(item[1], PREV_PREFIX))
    IN  IF prev = <<>> THEN None ELSE StrFrom(prev[1][1], Len(PREV_PREFIX))

\* The tracker whose history is encoded to `states`
TrackerFor(states, intent, rejected) ==
    [states |-> states,
     latest_action_name |-> LatestActionOf(states[Len(states)]),
     latest_message |-> intent,
     active_loop |-> [name |-> _get_active_form_name(states[Len(states)]),
                      rejected |-> rejected,
                      validate |-> TRUE],
     events |-> <<>>]

\* FormValidation events one tracker is followed through
MaxEvents == 2

---------------------------------------------------------------------------
(* The state machine.                                                      *)

Idle == [tier |-> "idle"]

\* os.path.isfile(memorized_file) is False
NoFile == [exists |-> FALSE]

\* The keys of the object persist writes (lines 407-412)
PersistedKeys == {"priority", "max_history", "lookup", "negative_lookup"}

\* The file persist writes for the tables (trained: what they were built from)
PersistedFile(lk, nlk, points) ==
    [exists |-> TRUE, parseable |-> TRUE, keys |-> PersistedKeys,
     lookup |-> lk, negative_lookup |-> nlk, trained |-> points]

\* The keys load reads of the parsed object, in the order it reads them
\* (lines 424-426)
LoadedKeys == <<"priority", "lookup", "negative_lookup">>

\* A file cut short, and files that lack one of the keys load reads
Damaged(file) ==
    LET data == IF file.exists THEN file ELSE PersistedFile(<<>>, <<>>, <<>>)
    IN  {[data EXCEPT !.parseable = FALSE]}
        \cup {[data EXCEPT !.keys = @ \ {LoadedKeys[i]}] : i \in 1..Len(LoadedKeys)}

\* What load may find under the path: the file as persist left it, or a
\* damaged one
Blobs(file) == {file} \cup Damaged(file)

\* The exception load ends with, or None when it returns a policy:
\* json.loads of line 421 raises on text that is no JSON, data[...] of lines
\* 424-426 on a missing key
LoadError(blob) ==
    IF ~blob.exists THEN None
    ELSE IF ~blob.parseable THEN "JSONDecodeError"
    ELSE IF \E i \in 1..Len(LoadedKeys) : LoadedKeys[i] \notin blob.keys
    THEN "KeyError: " \o LoadedKeys[CHOOSE i \in 1..Len(LoadedKeys) :
                                       /\ LoadedKeys[i] \notin blob.keys
                                       /\ \A j \in 1..(i - 1) : LoadedKeys[j] \in blob.keys]
    ELSE None

\* load_fault: the last operation was no load, or a load of the persisted file
NoFault == [kind |-> "none"]

\* The tracker of a conversation that has just started
StartTracker == TrackerFor(<<E>>, None, FALSE)

Init ==
    /\ lookup = <<>>
    /\ negative_lookup = <<>>
    /\ is_enabled = TRUE
    /\ hash_seed \in HashSeeds
    /\ trained = <<>>
    /\ tracker = StartTracker
    /\ result = _default_predictions
    /\ call = Idle
    /\ memorized_file = NoFile
    /\ load_fault = NoFault

\* RulePolicy.train.  It builds both tables from nothing, whatever they held,
\* so one training per policy reaches every pair of tables.
Train(training_trackers) ==
    /\ load_fault.kind # "raised"
    /\ trained = <<>>
    /\ load_fault' = NoFault
    /\ lookup' = TrainLookup(training_trackers)
    /\ negative_lookup' = TrainNegativeLookup(training_trackers)
    /\ trained' = training_trackers
    /\ result' = _default_predictions
    /\ call' = Idle
    /\ UNCHANGED <<is_enabled, hash_seed, tracker, memorized_file>>

\* MemoizationPolicy.toggle(activate)
toggle(activate) ==
    /\ load_fault.kind # "raised"
    /\ load_fault' = NoFault
    /\ is_enabled' = activate
    /\ result' = _default_predictions
    /\ call' = Idle
    /\ UNCHANGED <<lookup, negative_lookup, hash_seed, trained, tracker, memorized_file>>

\* A conversation goes on from its start to the state encoded as `states`
Converse(states, intent, rejected) ==
    /\ load_fault.kind # "raised"
    /\ tracker = StartTracker
    /\ load_fault' = NoFault
    /\ rejected => _get_active_form_name(states[Len(states)]) # None
    /\ tracker' = TrackerFor(states, intent, rejected)
    /\ result' = _default_predictions
    /\ call' = Idle
    /\ UNCHANGED <<lookup, negative_lookup, is_enabled, hash_seed, trained, memorized_file>>

\* The conversation ends and another one starts
Restart ==
    /\ load_fault.kind # "raised"
    /\ tracker # StartTracker
    /\ load_fault' = NoFault
    /\ tracker' = StartTracker
    /\ result' = _default_predictions
    /\ call' = Idle
    /\ UNCHANGED <<lookup, negative_lookup, is_enabled, hash_seed, trained, memorized_file>>

\* RulePolicy.predict_action_probabilities(tracker, domain)
Predict ==
    /\ load_fault.kind # "raised"
    /\ Len(tracker.events) < MaxEvents
    /\ load_fault' = NoFault
    /\ \E r \in {predict_action_probabilities(tracker, lookup, negative_lookup,
                                              is_enabled, hash_seed)} :
           /\ result' = r.result
           /\ tracker' = r.tracker
           /\ call' = [tier |-> r.tier, key |-> r.key, recalled |-> r.recalled,
                       possible_keys |-> r.possible_keys,
                       negative_keys |-> r.negative_keys,
                       negative_recalled |-> r.negative_recalled,
                       signals |-> Len(r.tracker.events) - Len(tracker.events),
                       repeated |-> call.tier # "idle",
                       previous |-> IF call.tier # "idle" THEN result ELSE r.result]
    /\ UNCHANGED <<lookup, negative_lookup, is_enabled, hash_seed, trained, memorized_file>>

\* RulePolicy.persist(path).  JSON keeps the string keys, the integers and
\* the strings of both tables, and the order of their entries.  The trainer
\* persists a policy after it trained it; the file is written whatever it
\* held, so one write per path reaches every file.
persist ==
    /\ load_fault.kind # "raised"
    /\ trained # <<>>
    /\ memorized_file = NoFile
    /\ memorized_file' = PersistedFile(lookup, negative_lookup, trained)
    /\ load_fault' = NoFault
    /\ UNCHANGED <<lookup, negative_lookup, is_enabled, hash_seed, trained, tracker,
                   result, call>>

\* load returns cls(...) of lines 422-427, or cls() of line 435 when there is
\* no file: the policy of a process started on the persisted model, under the
\* hash seed of that process.  The conversation goes on; the record of the
\* last call stays when the loaded policy is the one that made it.
LoadReturns(blob) ==
    /\ LoadError(blob) = None
    /\ \E data \in {IF blob.exists THEN blob ELSE PersistedFile(<<>>, <<>>, <<>>)} :
           /\ lookup' = data.lookup
           /\ negative_lookup' = data.negative_lookup
           /\ trained' = data.trained
           /\ \E same \in {/\ data.lookup = lookup
                            /\ data.negative_lookup = negative_lookup
                            /\ is_enabled} :
                 /\ call' = IF same THEN call ELSE Idle
                 /\ result' = IF same THEN result ELSE _default_predictions
    /\ is_enabled' = TRUE
    /\ hash_seed' \in HashSeeds
    /\ load_fault' = IF blob.exists THEN NoFault ELSE [kind |-> "fallback"]
    /\ UNCHANGED <<tracker, memorized_file>>

\* load raises at line 421 or at lines 424-426: the process that called it
\* holds no policy and serves no conversation, and no operation but another
\* load goes on from there.
LoadRaises(blob) ==
    /\ LoadError(blob) # None
    /\ load_fault' = [kind |-> "raised", error |-> LoadError(blob)]
    /\ lookup' = <<>>
    /\ negative_lookup' = <<>>
    /\ trained' = <<>>
    /\ is_enabled' = TRUE
    /\ result' = _default_predictions
    /\ call' = Idle
    /\ tracker' = StartTracker
    /\ UNCHANGED <<hash_seed, memorized_file>>

\* RulePolicy.load(path), reading `blob` under the path
load(blob) == LoadReturns(blob) \/ LoadRaises(blob)

Next ==
    \/ \E training_trackers \in TrainingSets : Train(training_trackers)
    \/ \E activate \in BOOLEAN : toggle(activate)
    \/ \E states \in Conversations, intent \in Intents, rejected \in BOOLEAN :
          Converse(states, intent, rejected)
    \/ Restart
    \/ Predict
    \/ persist
    \/ \E blob \in Blobs(memorized_file) : load(blob)

Spec == Init /\ [][Next]_vars

---------------------------------------------------------------------------
(* Claims.                                                                 *)

Called == call.tier # "idle"

\* The call went through rule matching (lines 332-400)
Matched == call.tier \in {"form_override", "suppressed", "rule", "no_rule"}

OneHot(index) == SetOne(_default_predictions, index)

Ones(vector) == {i \in DOMAIN vector : vector[i] = 1}

ReservedIntent(tk) ==
    tk.latest_message \in {USER_INTENT_RESTART, USER_INTENT_BACK, USER_INTENT_SESSION_START}

\* The fixed action of a reserved intent
FixedAction(intent) ==
    IF intent = USER_INTENT_RESTART THEN ACTION_RESTART_NAME
    ELSE IF intent = USER_INTENT_BACK THEN ACTION_BACK_NAME
    ELSE ACTION_SESSION_START_NAME

\* The tier-2 override applies to the tracker
DefaultActionApplies(tk) ==
    tk.latest_action_name = ACTION_LISTEN_NAME /\ ReservedIntent(tk)

\* C1: the vector every call returns has one entry per known action and is
\* all zero or holds exactly one 1 among zeros, on every return path.
C1_ResultShape ==
    Called =>
        /\ DOMAIN result = 0..(num_actions - 1)
        /\ \A i \in DOMAIN result : result[i] \in {0, 1}
        /\ Cardinality(Ones(result)) <= 1

\* C1 witness: the form override of a general rule returned the form alone.
C1_Witness ==
    /\ call.tier = "form_override"
    /\ Ones(result) = {index_for_action(tracker.active_loop.name)}

\* C2 as stated: with action_listen as the latest action and a reserved
\* intent as the latest intent, the call selects the intent's fixed action.
C2_Original ==
    (Called /\ DefaultActionApplies(tracker))
        => result = OneHot(index_for_action(FixedAction(tracker.latest_message)))

\* C2 amended: an enabled policy selects the fixed action of a reserved
\* intent that follows action_listen, whatever the tables and the active form.
C2_DefaultActionWhenEnabled ==
    (Called /\ is_enabled /\ DefaultActionApplies(tracker))
        => result = OneHot(index_for_action(FixedAction(tracker.latest_message)))

\* C2 witness: session_start overrode an active form with trained tables.
C2_Witness ==
    /\ call.tier = "default_action"
    /\ tracker.latest_message = USER_INTENT_SESSION_START
    /\ tracker.active_loop.name # None
    /\ lookup # <<>>
    /\ negative_lookup # <<>>
    /\ result = OneHot(index_for_action(ACTION_SESSION_START_NAME))

\* The tracker has an active form that is not rejected and did not just run
FormShouldRun(tk) ==
    /\ tk.active_loop.name # None
    /\ ~tk.active_loop.rejected
    /\ tk.latest_action_name # tk.active_loop.name

\* C3 as stated: with an active form F, not rejected, that did not just run,
\* the call selects F.
C3_Original ==
    (Called /\ FormShouldRun(tracker))
        => result = OneHot(index_for_action(tracker.active_loop.name))

\* C3 amended: an enabled policy to which no default-action override applies
\* selects the active form F that is not rejected and did not just run, even
\* when a rule of Lookup matches and recalls another action.
C3_FormWhenEnabledNoDefault ==
    (Called /\ is_enabled /\ ~DefaultActionApplies(tracker) /\ FormShouldRun(tracker))
        => result = OneHot(index_for_action(tracker.active_loop.name))

\* The keys of a table that match the tracker's states
Surviving(table, tk) == FilterKeys(DictKeys(table), Reversed(prediction_states(tk)), 0)

\* C3 witness: the form was selected although a rule matching the state
\* recalls another action.
C3_Witness ==
    /\ call.tier = "form"
    /\ \E i \in 1..Len(lookup) :
          /\ \E j \in 1..Len(Surviving(lookup, tracker)) :
                Surviving(lookup, tracker)[j] = lookup[i][1]
          /\ lookup[i][2] # PyInt(index_for_action(tracker.active_loop.name))

\* C4 as stated: a call in which a NoValidation entry survives matching
\* emits the skip-validation signal exactly once, whatever it predicts.
C4_SignalOnNoValidation ==
    (Matched /\ PyStr(NO_VALIDATION) \in call.negative_recalled) => call.signals = 1

\* The key of Lookup that training built from the rule point, if it kept one
BuiltKeys(point) ==
    LET feature_key == _create_feature_key(point.states)
        built == IF StrIn(RULE_SNIPPET_ACTION_NAME, feature_key)
                 THEN GeneralizedKey(feature_key) ELSE feature_key
    IN  IF DictHas(lookup, built) THEN {built} ELSE {}

\* _rule_is_good holds for the key at every reversed index of the states
MatchesAll(rule_key, states) ==
    \A i \in 0..(Len(states) - 1) : _rule_is_good(rule_key, i, Reversed(states)[i + 1])

\* C5 as stated: every key training put in Lookup matches, at every reversed
\* turn index, the turn sequence it was built from.
C5_SelfMatch ==
    \A n \in 1..Len(RulePoints(trained)) :
        \A rule_key \in BuiltKeys(RulePoints(trained)[n]) :
            MatchesAll(rule_key, RulePoints(trained)[n].states)

\* The turn segments of a key, latest first, each as its set of tokens
Segments(rule_key) ==
    LET rule_turns == Reversed(StrSplit(rule_key, "|"))
    IN  [i \in 1..Len(rule_turns) |->
            {StrSplitWhitespace(rule_turns[i])[j] :
                j \in 1..Len(StrSplitWhitespace(rule_turns[i]))}]

\* Key a is key b with turns wildcarded or tokens taken away
Generalizes(a, b) ==
    /\ Len(Segments(a)) <= Len(Segments(b))
    /\ \A i \in 1..Len(Segments(a)) : Segments(a)[i] \subseteq Segments(b)[i]

StrictlyGeneralizes(a, b) == Generalizes(a, b) /\ ~Generalizes(b, a)

PossibleKeys == {call.possible_keys[i] : i \in 1..Len(call.possible_keys)}

\* C6: in rule matching the chosen key is a surviving key of maximal raw
\* length, the recalled action is the one it maps to, and it is never a
\* generalization of another surviving key.
C6_LongestKeyWins ==
    (Matched /\ call.possible_keys # <<>>) =>
        /\ call.key \in PossibleKeys
        /\ \A other \in PossibleKeys : Len(other) <= Len(call.key)
        /\ \A other \in PossibleKeys : ~StrictlyGeneralizes(call.key, other)
        /\ call.tier # "suppressed" => call.recalled = DictGet(lookup, call.key)
        /\ call.tier = "rule" => result = OneHot(DictGet(lookup, call.key)[2])

\* C6 witness: a key and a generalization of it mapped to another action both
\* survived, and the action of the more specific key was returned.
C6_Witness ==
    /\ call.tier = "rule"
    /\ \E other \in PossibleKeys :
          /\ StrictlyGeneralizes(other, call.key)
          /\ DictGet(lookup, other) # DictGet(lookup, call.key)
    /\ result = OneHot(DictGet(lookup, call.key)[2])

\* The keys of Lookup that training generalized from a rule snippet
GeneralizedKeys ==
    UNION {BuiltKeys(RulePoints(trained)[n]) :
             n \in {m \in 1..Len(RulePoints(trained)) :
                      StrIn(RULE_SNIPPET_ACTION_NAME,
                            _create_feature_key(RulePoints(trained)[m].states))}}

\* The latest states hold the features of the key's segments, turn by turn
SatisfiesLatest(rule_key, states) ==
    LET rule_turns == Reversed(StrSplit(rule_key, "|"))
    IN  /\ Len(rule_turns) <= Len(states)
        /\ \A i \in 1..Len(rule_turns) :
              /\ Reversed(states)[i] # <<>>
              /\ _features_in_state(StrSplitWhitespace(rule_turns[i]), Reversed(states)[i])

\* C7: a key generalized from a rule snippet survives matching against every
\* conversation whose latest turns satisfy the key's segments, whatever and
\* however many the turns before them.
C7_WildcardSurvives ==
    Matched =>
        \A rule_key \in GeneralizedKeys :
            SatisfiesLatest(rule_key, prediction_states(tracker))
                => rule_key \in PossibleKeys

\* C7 witness: a generalized key survived against a conversation that holds
\* two turns with features before the turns the key speaks of.
C7_Witness ==
    /\ Matched
    /\ \E rule_key \in GeneralizedKeys :
          /\ rule_key \in PossibleKeys
          /\ Len(prediction_states(tracker)) >= Len(StrSplit(rule_key, "|")) + 2
          /\ \A i \in 1..Len(prediction_states(tracker)) :
                prediction_states(tracker)[i] # <<>>

\* The chosen key recalls action_listen without naming the form as active
ListenFromGeneralRule ==
    /\ call.key # None
    /\ DictGet(lookup, call.key) = PyInt(index_for_action(ACTION_LISTEN_NAME))
    /\ ~StrIn(ACTIVE_FORM_PREFIX \o tracker.active_loop.name, call.key)

\* C8: when rule matching is reached with an active form, the chosen key
\* recalls action_listen without naming the form as active, and a NoActiveForm
\* entry survives, the call returns the all-zero vector.
C8_NegativeRuleExclusive ==
    ( /\ Matched
      /\ tracker.active_loop.name # None
      /\ ListenFromGeneralRule
      /\ PyStr(NO_ACTIVE_FORM) \in call.negative_recalled )
        => result = _default_predictions

\* C8 witness: a general rule recalled action_listen inside the form, a
\* NoActiveForm entry survived, and nothing was predicted.
C8_Witness ==
    /\ call.tier = "suppressed"
    /\ ListenFromGeneralRule
    /\ PyStr(NO_ACTIVE_FORM) \in call.negative_recalled
    /\ result = _default_predictions

\* The non-placeholder actions a single rule trace may be labelled with
RecallableActions == RuleActions \ {RULE_SNIPPET_ACTION_NAME}

\* The call was made by an enabled policy trained on the one rule
\* [{}, {prev_action_listen}] -> a, on that same history, with no reserved
\* intent and no active form
RecallCase(a) ==
    /\ Called
    /\ is_enabled
    /\ trained = << Rule(<<E, L>>, a) >>
    /\ prediction_states(tracker) = <<E, L>>
    /\ tracker.latest_message = None
    /\ tracker.active_loop.name = None

\* C9: after training on the single rule [{}, {prev_action_listen}] -> A, with
\* A not the rule-snippet placeholder, predicting on the same two-turn history
\* returns 1 at the index of A and 0 elsewhere.
C9_TrainThenRecall ==
    \A a \in RecallableActions :
        RecallCase(a) => result = OneHot(index_for_action(a))

\* C9 witness: the rule labelled action_listen, the action of index 0, was recalled.
C9_Witness ==
    /\ RecallCase(ACTION_LISTEN_NAME)
    /\ call.tier = "rule"
    /\ result = OneHot(index_for_action(ACTION_LISTEN_NAME))

\* C10 as stated: a call on the conversation state and the tables of the call
\* before it returns the vector that call returned.
C10_SameVector ==
    (Called /\ call.repeated) => result = call.previous

\* C11 as stated: load never raises, and on an absent or malformed file it
\* returns a policy whose Lookup and NegativeLookup are empty.
C11_LoadNeverRaises ==
    load_fault.kind # "none" =>
        /\ load_fault.kind = "fallback"
        /\ lookup = <<>>
        /\ negative_lookup = <<>>

\* The turn sequences at hand: the histories of the trained rule points and
\* the history of the conversation
TurnSequences ==
    {RulePoints(trained)[n].states : n \in 1..Len(RulePoints(trained))}
        \cup {prediction_states(tracker)}

\* The segment of one turn: its features joined by blanks, empty for an empty turn
TurnSegment(state) == StrStrip(AppendFeatures("", StateKeys(state)))

\* The key has one segment per turn, in turn order
OneSegmentPerTurn(states) ==
    LET segments == StrSplit(_create_feature_key(states), "|")
    IN  /\ Len(segments) = Len(states)
        /\ \A i \in 1..Len(states) : segments[i] = TurnSegment(states[i])

\* The two sequences hold the same turns with features, in the same order,
\* and differ in their empty turns
DifferInEmptyTurns(a, b) ==
    /\ a # b
    /\ SelectSeq(a, LAMBDA state : state # <<>>) = SelectSeq(b, LAMBDA state : state # <<>>)

\* C12 as stated: the key of every turn sequence has exactly one segment per
\* turn, an empty segment for an empty turn at its own position, and two
\* sequences that differ only in their empty turns get different keys.
C12_NoTurnDropped ==
    /\ \A states \in TurnSequences : OneSegmentPerTurn(states)
    /\ \A a \in TurnSequences, b \in TurnSequences :
          DifferInEmptyTurns(a, b) => _create_feature_key(a) # _create_feature_key(b)

\* The entry recalls the rule-snippet placeholder
RecallsPlaceholder(entry) == entry[2] = PyInt(index_for_action(RULE_SNIPPET_ACTION_NAME))

MinedPoints == RulePoints(trained) \o StoryPoints(trained)

LatestTurn(point) == point.states[Len(point.states)]

\* The form whose active-form feature the latest turn carries, or None
FormOf(point) ==
    IF \E name \in RuleActions : InState(ACTIVE_FORM_PREFIX \o name, LatestTurn(point))
    THEN CHOOSE name \in RuleActions : InState(ACTIVE_FORM_PREFIX \o name, LatestTurn(point))
    ELSE None

AfterListen(point) == InState(PREV_PREFIX \o ACTION_LISTEN_NAME, LatestTurn(point))

\* The two-turn key of the point with its placeholder turn generalized away:
\* the preceding action of the turn before the latest one, if the window
\* holds one, then the latest turn
TwoTurnKey(point) ==
    LET window == LastN(point.states, 2)
        before == SelectSeq(window[1], LAMBDA item : StartsWith(item[1], PREV_PREFIX))
    IN  IF before = <<>> \/ InState(PREV_PREFIX \o RULE_SNIPPET_ACTION_NAME, before)
        THEN TurnSegment(LatestTurn(point))
        ELSE TurnSegment(before) \o "|" \o TurnSegment(LatestTurn(point))

\* The marker the point asks for, or None
MarkerOf(point) ==
    IF FormOf(point) = None THEN None
    ELSE IF AfterListen(point) /\ point.action = FormOf(point) THEN NO_VALIDATION
    ELSE IF ~AfterListen(point) /\ point.action \notin {ACTION_LISTEN_NAME, FormOf(point)}
    THEN NO_ACTIVE_FORM
    ELSE None

\* C14: after train, a point with an active form F in its latest turn has its
\* generalized two-turn key marked NoValidation when the latest turn follows
\* action_listen and the action is F, NoActiveForm when it does not and the
\* action is neither action_listen nor F; every entry of NegativeLookup is
\* the marker of such a point, so other points add none.
C14_NegativeRuleMining ==
    /\ \A n \in 1..Len(MinedPoints) :
          MarkerOf(MinedPoints[n]) # None
              => DictGet(negative_lookup, TwoTurnKey(MinedPoints[n]))
                     = PyStr(MarkerOf(MinedPoints[n]))
    /\ \A i \in 1..Len(negative_lookup) :
          \E n \in 1..Len(MinedPoints) :
              /\ MarkerOf(MinedPoints[n]) # None
              /\ negative_lookup[i] = <<TwoTurnKey(MinedPoints[n]),
                                        PyStr(MarkerOf(MinedPoints[n]))>>

\* C14 witness: training mined a NoValidation and a NoActiveForm entry from
\* traces that also hold a point inside the form that fits neither case and
\* a point without an active form.
C14_Witness ==
    /\ \E i \in 1..Len(negative_lookup) : negative_lookup[i][2] = PyStr(NO_VALIDATION)
    /\ \E i \in 1..Len(negative_lookup) : negative_lookup[i][2] = PyStr(NO_ACTIVE_FORM)
    /\ \E n \in 1..Len(MinedPoints) :
          FormOf(MinedPoints[n]) # None /\ MarkerOf(MinedPoints[n]) = None
    /\ \E n \in 1..Len(MinedPoints) : FormOf(MinedPoints[n]) = None
    /\ negative_lookup = TrainNegativeLookup(trained)

\* C15: when rule matching is reached with an active form F, the chosen key
\* recalls action_listen without naming F as active, and no NoActiveForm entry
\* survives, the call selects F, not action_listen.
C15_FormHandBack ==
    ( /\ Matched
      /\ tracker.active_loop.name # None
      /\ ListenFromGeneralRule
      /\ PyStr(NO_ACTIVE_FORM) \notin call.negative_recalled )
        => result = OneHot(index_for_action(tracker.active_loop.name))

\* C15 witness: a general rule recalled action_listen inside the rejected
\* form f, the negative rules that survived held no NoActiveForm, and f was
\* selected.
C15_Witness ==
    /\ Matched
    /\ tracker.active_loop.name = "f"
    /\ tracker.active_loop.rejected
    /\ ListenFromGeneralRule
    /\ call.negative_keys # <<>>
    /\ PyStr(NO_ACTIVE_FORM) \notin call.negative_recalled
    /\ result = OneHot(index_for_action("f"))
    /\ result # OneHot(index_for_action(ACTION_LISTEN_NAME))

\* The call returned before rule matching (lines 291-330)
ReturnedEarly == call.tier \in {"disabled", "default_action", "form", "listen_after_form"}

\* C16: a call emits the skip-validation signal only when the policy is
\* enabled, no default-action override applies and the tracker has an active
\* form whose rejected flag is set; it emits none when it returns from the
\* disabled, default-action or active-form tiers, nor without an active form.
C16_SignalOnlyInRejectedForm ==
    Called =>
        /\ call.signals \in {0, 1}
        /\ call.signals = 1 =>
              /\ is_enabled
              /\ ~DefaultActionApplies(tracker)
              /\ tracker.active_loop.name # None
              /\ tracker.active_loop.rejected
        /\ ReturnedEarly => call.signals = 0
        /\ tracker.active_loop.name = None => call.signals = 0

\* C16 witness: a call inside the rejected form f emitted the signal, and the
\* tracker holds the FormValidation(False) event.
C16_Witness ==
    /\ Matched
    /\ call.signals = 1
    /\ tracker.active_loop.name = "f"
    /\ tracker.active_loop.rejected
    /\ tracker.events # <<>>
    /\ ~tracker.active_loop.validate

\* The keys of Lookup that training built from a rule without a placeholder
\* turn, and so kept as _create_feature_key made them
AnchoredKeys ==
    UNION {BuiltKeys(RulePoints(trained)[n]) :
             n \in {m \in 1..Len(RulePoints(trained)) :
                      ~StrIn(RULE_SNIPPET_ACTION_NAME,
                             _create_feature_key(RulePoints(trained)[m].states))}}

\* The number of segments of the key that hold features
NonEmptySegments(rule_key) ==
    Cardinality({i \in 1..Len(StrSplit(rule_key, "|")) : StrSplit(rule_key, "|")[i] # ""})

\* The conversation has at most n turns, or its (n+1)-th most recent turn is empty
StartsWithin(states, n) ==
    Len(states) <= n \/ Reversed(states)[n + 1] = <<>>

\* C17: a key of Lookup that was not generalized survives matching only
\* against conversations that have at most as many turns as the key has
\* non-empty segments, or whose next turn further back is empty.
C17_AnchoredAtStart ==
    Matched =>
        \A rule_key \in AnchoredKeys :
            rule_key \in PossibleKeys
                => StartsWithin(prediction_states(tracker), NonEmptySegments(rule_key))

\* C17 witness: a key that was not generalized survived against a
\* conversation that has more turns than the key has non-empty segments, the
\* next turn further back being the empty first one.
C17_Witness ==
    /\ Matched
    /\ \E rule_key \in AnchoredKeys :
          /\ rule_key \in PossibleKeys
          /\ NonEmptySegments(rule_key) >= 1
          /\ Len(prediction_states(tracker)) = NonEmptySegments(rule_key) + 1
          /\ prediction_states(tracker)[1] = <<>>

=============================================================================
